---- MODULE Spec2Model ----
(***************************************************************************)
(* cktext: a localized-text store (ck::Text).  A Document holds a          *)
(* document-level Property table, a map from group names to Groups and a   *)
(* cached view of the groups sorted by priority.  Strings are sequences of *)
(* bytes, a var is a tagged value, and the binary container is a sequence  *)
(* of bytes written by Text::save and parsed by load.                      *)
(***************************************************************************)
EXTENDS Integers, Sequences, FiniteSets, TLC

VARIABLES
    text,     \* the Document operated on (main.cpp: text)
    text1,    \* the Document a saved file is opened into (main.cpp: text1)
    disk,     \* the bytes of the file at the saved path, NoFile when absent
    cop,      \* the bytes of the file at the saved path + ".cop", or NoFile
    alive,    \* FALSE once the process has been terminated by a fault
    last      \* the last public call made: its name, arguments and result

vars == <<text, text1, disk, cop, alive, last>>

(***************************************************************************)
(* Bounds of the model and constants of the program.                       *)
(***************************************************************************)
MaxAddr == 3            \* distinct Group objects that can be live at once

L10KB == 10485760
MaxName == 64
MaxString == 255
DefaultPriority == 100

TP_NUL == 0
TP_BOOL == 1
TP_INT == 2
TP_FLOAT == 3
TP_STRING == 4

Addr == 1..MaxAddr

(***************************************************************************)
(* C strings.  A string is a sequence of bytes; the null pointer is a      *)
(* value no string equals.                                                 *)
(***************************************************************************)
nullptr == <<-1>>
g_empty == <<>>

Min(a, b) == IF a < b THEN a ELSE b

\* A uint32_t is the pair <<high 16 bits, low 16 bits>> of its value.
\* int -> uint32_t conversion: the value modulo 2^32
ToU32(i) == <<(i \div 65536) % 65536, i % 65536>>

\* a < b on uint32_t
U32Less(a, b) == a[1] < b[1] \/ (a[1] = b[1] /\ a[2] < b[2])

\* Rep(n, b) is the string of n bytes b, kept in run-length form: strings
\* longer than L10KB are only ever measured, never read byte by byte
Rep(n, b) == <<-4, n, b>>

\* std::char_traits<C>::length(str)
length(str) == IF Len(str) = 3 /\ str[1] = -4 THEN str[2] ELSE Len(str)

\* std::string::c_str() read as a C string: the bytes before the first NUL
RECURSIVE CStrFrom(_, _)
CStrFrom(s, i) ==
    IF i > Len(s) \/ s[i] = 0 THEN <<>>
    ELSE <<s[i]>> \o CStrFrom(s, i + 1)

c_str(s) == CStrFrom(s, 1)

\* std::string operator< : lexicographic on unsigned bytes
RECURSIVE StrLessFrom(_, _, _)
StrLessFrom(a, b, i) ==
    IF i > Len(b) THEN FALSE
    ELSE IF i > Len(a) THEN TRUE
    ELSE IF a[i] # b[i] THEN a[i] < b[i]
    ELSE StrLessFrom(a, b, i + 1)

StrLess(a, b) == StrLessFrom(a, b, 1)

\* the keys of a std::map<std::string, T> in iteration order
RECURSIVE KeysInOrder(_)
KeysInOrder(S) ==
    IF S = {} THEN <<>>
    ELSE LET k == CHOOSE x \in S : \A y \in S : x = y \/ StrLess(x, y)
         IN  <<k>> \o KeysInOrder(S \ {k})

\* a std::map with one key bound (operator[] followed by assignment)
MapPut(m, k, v) == [x \in DOMAIN m \cup {k} |-> IF x = k THEN v ELSE m[x]]

\* a std::map with one key erased
MapErase(m, k) == [x \in DOMAIN m \ {k} |-> m[x]]

EmptyMap == [x \in {} |-> <<>>]

(***************************************************************************)
(* ck::var: std::variant<bool, int, float, std::string>.  index is the     *)
(* alternative held; num carries a bool (0/1), an int or the 32 bits of a  *)
(* float; str carries a string.                                            *)
(***************************************************************************)
var_bool(b) == [index |-> 0, num |-> IF b THEN 1 ELSE 0, str |-> <<>>]
var_int(i) == [index |-> 1, num |-> i, str |-> <<>>]
var_float(bits) == [index |-> 2, num |-> bits, str |-> <<>>]
var_string(s) == [index |-> 3, num |-> 0, str |-> s]

\* var() = default: the variant value-initialises its first alternative
var_default == [index |-> 0, num |-> 0, str |-> <<>>]

\* var(true) and var(false)
var_true == var_bool(TRUE)
var_false == var_bool(FALSE)

var_type(v) ==
    CASE v.index = 0 -> TP_BOOL
      [] v.index = 1 -> TP_INT
      [] v.index = 2 -> TP_FLOAT
      [] v.index = 3 -> TP_STRING
      [] OTHER -> TP_NUL

\* !d.valueless_by_exception(): no operation of the program throws while
\* assigning, so the variant always holds an alternative
var_valid(v) == v.index \in 0..3

(***************************************************************************)
(* Text::Property: std::map<std::string, var>                              *)
(***************************************************************************)
Property_get(o, name) ==
    IF name = nullptr THEN var_default
    ELSE IF name \notin DOMAIN o THEN var_default
    ELSE o[name]

Property_set_NoStringCheck(o, name, value) ==
    IF name = nullptr \/ ~var_valid(value) THEN o
    ELSE IF length(name) < 1 \/ length(name) > MaxName THEN o
    ELSE MapPut(o, name, value)

Property_set(o, name, value) ==
    IF name = nullptr \/ ~var_valid(value) THEN o
    ELSE IF length(name) < 1 \/ length(name) > MaxName THEN o
    ELSE IF var_type(value) = TP_STRING
            /\ (length(value.str) < 1 \/ length(value.str) > MaxString) THEN o
    ELSE MapPut(o, name, value)

(***************************************************************************)
(* Text::Group                                                             *)
(***************************************************************************)
\* a Group object living at address a, as its constructor leaves it
NewGroup(a) ==
    [addr |-> a, prop |-> EmptyMap, map |-> EmptyMap,
     priority |-> ToU32(DefaultPriority)]

Group_u8(g, src, def) ==
    IF src \notin DOMAIN g.map THEN nullptr
    ELSE IF g.map[src] = <<>> THEN def
    ELSE g.map[src]

Group_empty(g) == g.map = EmptyMap

Group_clear(g) ==
    [g EXCEPT !.prop = EmptyMap, !.map = EmptyMap,
              !.priority = ToU32(DefaultPriority)]

\* returns the stored translation (or nullptr) and the Group afterwards
Group_set(g, src, trs) ==
    IF src = nullptr \/ trs = nullptr THEN [ret |-> nullptr, g |-> g]
    ELSE IF length(src) < 1 \/ length(src) > L10KB \/ length(trs) > L10KB
         THEN [ret |-> nullptr, g |-> g]
    ELSE [ret |-> trs, g |-> [g EXCEPT !.map = MapPut(g.map, src, trs)]]

(***************************************************************************)
(* Text, the Document.  map binds group names to Group objects; sorted is  *)
(* the vector of Group pointers (addresses) of the last update_sorted.     *)
(***************************************************************************)
\* the property name "priority"
priority_key == <<112, 114, 105, 111, 114, 105, 116, 121>>


AddrsOf(m) == {m[n].addr : n \in DOMAIN m}

\* std::sort with the comparator of update_sorted: priority descending, then
\* address ascending
RECURSIVE SortGroups(_)
SortGroups(G) ==
    IF G = {} THEN <<>>
    ELSE LET first == CHOOSE a \in G : \A b \in G :
                        \/ a = b
                        \/ U32Less(b.priority, a.priority)
                        \/ (a.priority = b.priority /\ a.addr < b.addr)
         IN  <<first.addr>> \o SortGroups(G \ {first})

update_sorted(t) ==
    [t EXCEPT !.sorted = SortGroups({t.map[n] : n \in DOMAIN t.map})]

\* Text::Text(): _map[""] creates the default group; _sorted starts empty
Text_new(a) ==
    [prop |-> EmptyMap, map |-> [n \in {<<>>} |-> NewGroup(a)], sorted |-> <<>>]

Text_get(t, group) ==
    LET name == IF group = nullptr THEN <<>> ELSE group
    IN  IF name \in DOMAIN t.map THEN name ELSE nullptr

Text_empty(t) ==
    IF t.map = EmptyMap THEN [ub |-> TRUE, ret |-> FALSE]
    ELSE IF Cardinality(DOMAIN t.map) < 2
         THEN [ub |-> FALSE,
               ret |-> Group_empty(t.map[KeysInOrder(DOMAIN t.map)[1]])]
    ELSE [ub |-> FALSE, ret |-> FALSE]

\* the loop of Text::clear: i walks the keys in order, skipping an empty key
\* and erasing any other while more than one group is left
RECURSIVE ClearLoop(_, _, _)
ClearLoop(m, keys, i) ==
    IF Cardinality(DOMAIN m) > 1 /\ i <= Len(keys)
    THEN IF keys[i] = <<>> THEN ClearLoop(m, keys, i + 1)
         ELSE ClearLoop(MapErase(m, keys[i]), keys, i + 1)
    ELSE m

\* ub: _map.begin() of an empty map is dereferenced
Text_clear(t) ==
    IF t.map = EmptyMap THEN [ub |-> TRUE, t |-> [t EXCEPT !.prop = EmptyMap]]
    ELSE LET m == ClearLoop(t.map, KeysInOrder(DOMAIN t.map), 1)
             first == KeysInOrder(DOMAIN m)[1]
         IN  [ub |-> FALSE,
              t |-> update_sorted([t EXCEPT !.prop = EmptyMap,
                                            !.map = [m EXCEPT ![first] = Group_clear(@)]])]

Text_remove(t, group) ==
    IF group = nullptr THEN t
    ELSE IF length(group) > 0
         THEN update_sorted([t EXCEPT !.map = MapErase(t.map, group)])
    ELSE IF group \in DOMAIN t.map
         THEN update_sorted([t EXCEPT !.map[group] = Group_clear(@)])
    ELSE update_sorted(t)

\* Text::remove(iterator): it points at the element whose key is name
Text_remove_iter(t, name) ==
    update_sorted([t EXCEPT !.map = MapErase(t.map, name)])

\* a is the address the new map node is allocated at; ret is the name the
\* returned Group pointer is bound to, or nullptr
Text_insert(t, group, prop, a) ==
    IF group = nullptr THEN [ret |-> nullptr, t |-> t]
    ELSE IF length(group) < 1 \/ length(group) > MaxName THEN [ret |-> nullptr, t |-> t]
    ELSE IF group \in DOMAIN t.map THEN [ret |-> nullptr, t |-> t]
    ELSE LET v == Property_get(prop, priority_key)
             p0 == IF var_type(v) = TP_INT THEN ToU32(v.num) ELSE ToU32(DefaultPriority)
             p1 == IF U32Less(p0, ToU32(0)) THEN ToU32(0) ELSE p0
             grp == [NewGroup(a) EXCEPT !.prop = prop, !.priority = p1]
         IN  [ret |-> group,
              t |-> update_sorted([t EXCEPT !.map = MapPut(t.map, group, grp)])]

\* Text::rename.  When newName is taken, insert() moves the node into its
\* result, which is destroyed with the group in it; the handle `it` is then
\* empty and it.key() is undefined behaviour (ub).  lost is the map when
\* execution continues past it: insert of an empty handle does nothing.
Text_rename(t, oldName, newName) ==
    IF oldName \notin DOMAIN t.map THEN [ret |-> FALSE, ub |-> FALSE, t |-> t]
    ELSE LET node == t.map[oldName]
             rest == MapErase(t.map, oldName)
         IN  IF newName \notin DOMAIN rest
             THEN [ret |-> TRUE, ub |-> FALSE,
                   t |-> [t EXCEPT !.map = MapPut(rest, newName, node)]]
             ELSE [ret |-> FALSE, ub |-> TRUE, t |-> [t EXCEPT !.map = rest]]

\* the Group a pointer of _sorted points at; no Group when it dangles
Deref(t, a) == {t.map[n] : n \in {x \in DOMAIN t.map : t.map[x].addr = a}}

UB == <<-2>>

RECURSIVE u8Loop(_, _, _, _)
u8Loop(t, src, def, i) ==
    IF i > Len(t.sorted) THEN nullptr
    ELSE IF Deref(t, t.sorted[i]) = {} THEN UB
    ELSE LET it == CHOOSE g \in Deref(t, t.sorted[i]) : TRUE
             trs == Group_u8(it, src, g_empty)
         IN  IF trs # nullptr
             THEN IF trs = g_empty THEN def ELSE trs
             ELSE u8Loop(t, src, def, i + 1)

Text_u8(t, src, def) ==
    IF src = nullptr THEN nullptr ELSE u8Loop(t, src, def, 1)

(***************************************************************************)
(* The byte stream and the AttributeRecord codec.                          *)
(***************************************************************************)
Max(a, b) == IF a > b THEN a ELSE b

\* ireader over a buffer or a file: data and the read position
Reader(data) == [data |-> data, pos |-> 0]

\* rd.read(dst, n): the bytes available, at most n; b is what was read
rd_read(rd, n) ==
    LET k == Max(0, Min(n, Len(rd.data) - rd.pos))
    IN  [b |-> SubSeq(rd.data, rd.pos + 1, rd.pos + k),
         rd |-> [rd EXCEPT !.pos = @ + k]]

\* rd.offset(ofs): a seek relative to the position
rd_offset(rd, ofs) == [rd EXCEPT !.pos = Max(0, @ + ofs)]

Pow256(k) == CASE k = 0 -> 1 [] k = 1 -> 256 [] k = 2 -> 65536 [] OTHER -> 16777216

\* the n low bytes of a 32-bit integer, little-endian
IntBytes(i, n) == [k \in 1..n |-> (i \div Pow256(k - 1)) % 256]

\* an int initialised to 0 whose first Len(b) <= 4 bytes were read from b
BytesInt(b) ==
    LET byte(k) == IF k <= Len(b) THEN b[k] ELSE 0
    IN  IF byte(4) >= 128
        THEN byte(1) + 256 * byte(2) + 65536 * byte(3) + 16777216 * (byte(4) - 256)
        ELSE byte(1) + 256 * byte(2) + 65536 * byte(3) + 16777216 * byte(4)

\* out.resize(n): the old bytes kept, the new ones zero
Resize(s, n) == [i \in 1..n |-> IF i <= Len(s) THEN s[i] ELSE 0]

\* the buffer after a read of b into its start
Overlay(buf, b) == [i \in 1..Len(buf) |-> IF i <= Len(b) THEN b[i] ELSE buf[i]]

\* the lambda read_str of read(ireader&, Property&): a one-byte length and
\* the bytes; sz is -1 when the length is out of 1..max_size
read_str1(rd, out, max_size) ==
    LET bytes(r1, sz) ==
            LET filled(r2) ==
                    [sz |-> sz, out |-> Overlay(Resize(out, sz), r2.b), rd |-> r2.rd]
            IN  filled(rd_read(r1.rd, sz))
        sized(r1) ==
            LET sz == BytesInt(r1.b)
            IN  IF sz < 1 \/ sz > max_size THEN [sz |-> -1, out |-> out, rd |-> r1.rd]
                ELSE bytes(r1, sz)
    IN  sized(rd_read(rd, 1))

\* read(ireader&, Text::Property&): one AttributeRecord into o
read(rd, o) ==
    LET flag(name, rv) ==
            [ok |-> TRUE, rd |-> rv.rd,
             o |-> Property_set(o, name, var_bool(BytesInt(rv.b) # 0))]
        int(name, rv) ==
            [ok |-> TRUE, rd |-> rv.rd,
             o |-> Property_set(o, name, var_int(BytesInt(rv.b)))]
        float(name, rv) ==
            [ok |-> TRUE, rd |-> rv.rd,
             o |-> Property_set(o, name, var_float(BytesInt(rv.b)))]
        \* uint8_t sz_str = read_str(v, 255): -1 becomes 255, and
        \* sz_str < 0 is never true of a uint8_t
        string(name, sz_name, rs) ==
            LET sz_str == rs.sz % 256
            IN  IF sz_str < 0
                THEN [ok |-> FALSE, rd |-> rd_offset(rs.rd, -3 - sz_name), o |-> o]
                ELSE [ok |-> TRUE, rd |-> rs.rd,
                      o |-> Property_set(o, name, var_string(rs.out))]
        value(type, rn, name) ==
            CASE type = TP_BOOL -> flag(name, rd_read(rn.rd, 1))
              [] type = TP_INT -> int(name, rd_read(rn.rd, 4))
              [] type = TP_FLOAT -> float(name, rd_read(rn.rd, 4))
              [] OTHER -> string(name, rn.sz, read_str1(rn.rd, <<>>, MaxString))
        named(type, rn) ==
            IF rn.sz < 0
            THEN [ok |-> FALSE, rd |-> rd_offset(rn.rd, -2), o |-> o]
            ELSE value(type, rn, c_str(rn.out))
        typed(rt) ==
            LET type == BytesInt(rt.b)
            IN  IF type < TP_BOOL \/ type > TP_STRING
                THEN [ok |-> FALSE, rd |-> rd_offset(rt.rd, -1), o |-> o]
                ELSE named(type, read_str1(rt.rd, <<>>, MaxName))
    IN  typed(rd_read(rd, 1))

\* the lambda write_str of write(writer&, Property&)
write_str1(str) == IntBytes(Len(str), 1) \o str

\* one entry of write(writer&, const Text::Property&)
write_entry(name, value) ==
    LET type == var_type(value)
    IN  IF type = TP_NUL THEN <<>>
        ELSE IF Len(name) = 0 \/ Len(name) > MaxName THEN <<>>
        ELSE IntBytes(type, 1) \o write_str1(name) \o
             CASE type = TP_BOOL -> IntBytes(value.num, 1)
               [] type = TP_INT -> IntBytes(value.num, 4)
               [] type = TP_FLOAT -> IntBytes(value.num, 4)
               [] OTHER -> write_str1(value.str)

RECURSIVE write_entries(_, _, _)
write_entries(o, keys, i) ==
    IF i > Len(keys) THEN <<>>
    ELSE write_entry(keys[i], o[keys[i]]) \o write_entries(o, keys, i + 1)

\* write(writer&, const Text::Property&): the entries in key order
write(o) == write_entries(o, KeysInOrder(DOMAIN o), 1)

(***************************************************************************)
(* The frame compressor (lz4xx), an external library: a frame is the LZ4   *)
(* magic number followed by the payload; inflating anything else fails     *)
(* and produces no output.                                                 *)
(***************************************************************************)
LZ4Magic == <<4, 34, 77, 24>>

lz4_compress(bytes) == LZ4Magic \o bytes

lz4_decompress(bytes) ==
    IF Len(bytes) >= 4 /\ SubSeq(bytes, 1, 4) = LZ4Magic
    THEN SubSeq(bytes, 5, Len(bytes))
    ELSE <<>>

(***************************************************************************)
(* Text::save: the container written to the file.                          *)
(***************************************************************************)
CKT == <<67, 75, 84>>

write_item(src, trs) ==
    IntBytes(Len(src), 4) \o src \o IntBytes(Len(trs), 4) \o trs

RECURSIVE write_items(_, _, _)
write_items(map, keys, i) ==
    IF i > Len(keys) THEN <<>>
    ELSE write_item(keys[i], map[keys[i]]) \o write_items(map, keys, i + 1)

\* the name, the two counts, the attributes and the items of one group
write_group(name, g) ==
    IntBytes(Len(name), 1) \o name
    \o IntBytes(Cardinality(DOMAIN g.prop), 4)
    \o IntBytes(Cardinality(DOMAIN g.map), 4)
    \o write(g.prop)
    \o write_items(g.map, KeysInOrder(DOMAIN g.map), 1)

RECURSIVE write_groups(_, _, _)
write_groups(map, keys, i) ==
    IF i > Len(keys) THEN <<>>
    ELSE write_group(keys[i], map[keys[i]]) \o write_groups(map, keys, i + 1)

save_header(compress) == CKT \o IntBytes(IF compress THEN 1 ELSE 0, 1)

\* Text::save(filename, compress) when every file can be opened: the bytes
\* left at filename.  An empty Document returns before the compression step.
Text_save(t, compress) ==
    LET e == Text_empty(t)
        sz_attr == IntBytes(Cardinality(DOMAIN t.prop), 4)
        body == sz_attr \o IntBytes(Cardinality(DOMAIN t.map), 4) \o write(t.prop)
                \o write_groups(t.map, KeysInOrder(DOMAIN t.map), 1)
    IN  IF e.ub THEN [ub |-> TRUE, ret |-> FALSE, file |-> save_header(compress) \o sz_attr]
        ELSE IF e.ret
        THEN [ub |-> FALSE, ret |-> TRUE,
              file |-> save_header(compress) \o sz_attr \o IntBytes(0, 4) \o write(t.prop)]
        ELSE IF compress
        THEN [ub |-> FALSE, ret |-> TRUE, file |-> save_header(compress) \o lz4_compress(body)]
        ELSE [ub |-> FALSE, ret |-> TRUE, file |-> save_header(compress) \o body]

(***************************************************************************)
(* load(Text&, Rd&): the container parsed into the Document `that`.        *)
(***************************************************************************)
\* read_str(ireader&, std::string&): a four-byte length and the bytes (read
\* in chunks of 1024, which reads the same bytes as one read); sz is 0 when
\* the length is out of 1..L10KB
read_str(rd, out) ==
    LET bytes(r1, sz) ==
            LET filled(r2) ==
                    [sz |-> sz, out |-> Overlay(Resize(out, sz), r2.b), rd |-> r2.rd]
            IN  filled(rd_read(r1.rd, sz))
        sized(r1) ==
            LET sz == BytesInt(r1.b)
            IN  IF sz < 1 \/ sz > L10KB THEN [sz |-> 0, out |-> out, rd |-> r1.rd]
                ELSE bytes(r1, sz)
    IN  sized(rd_read(rd, 4))

\* the lambda read_attr of load: sz records into a cleared table, which is
\* cleared again when a record fails
RECURSIVE read_attr_loop(_, _, _, _)
read_attr_loop(rd, i, sz, attr) ==
    LET record(r) ==
            IF ~r.ok THEN [ok |-> FALSE, rd |-> r.rd, attr |-> EmptyMap]
            ELSE read_attr_loop(r.rd, i + 1, sz, r.o)
    IN  IF i >= sz THEN [ok |-> TRUE, rd |-> rd, attr |-> attr]
        ELSE record(read(rd, attr))

read_attr(rd, sz) == read_attr_loop(rd, 0, sz, EmptyMap)

\* the loop over the items of one group; src is the string reused from item
\* to item, trs a fresh string or the one already in the map
RECURSIVE read_items(_, _, _, _, _)
read_items(rd, map, src, j, sz_item) ==
    LET translated(rs, rt) ==
            read_items(rt.rd, MapPut(map, rs.out, rt.out), rs.out, j + 1, sz_item)
        source(rs) ==
            IF rs.sz < 1
            THEN [error |-> TRUE, rd |-> rs.rd, map |-> map, src |-> rs.out]
            ELSE translated(rs, read_str(rs.rd, IF rs.out \in DOMAIN map
                                                THEN map[rs.out] ELSE <<>>))
    IN  IF j >= sz_item THEN [error |-> FALSE, rd |-> rd, map |-> map, src |-> src]
        ELSE source(read_str(rd, src))

merge_items_Replace(g, map, keys, i) == [g EXCEPT !.map = map]

\* the merge of a loaded group into the existing group g, item by item
RECURSIVE merge_items(_, _, _, _)
merge_items(g, map, keys, i) ==
    IF i > Len(keys) THEN g
    ELSE merge_items(Group_set(g, c_str(keys[i]), c_str(map[keys[i]])).g,
                     map, keys, i + 1)

\* the end of load: an error recorded in the loop clears the Document
load_end(st) ==
    LET cleared(c) ==
            [ret |-> FALSE, ub |-> c.ub, full |-> FALSE, that |-> c.t, rd |-> st.rd]
    IN  IF st.error THEN cleared(Text_clear(st.that))
        ELSE [ret |-> TRUE, ub |-> FALSE, full |-> FALSE, that |-> st.that,
              rd |-> st.rd]

\* the loop over the groups.  st holds the reader, the Document, the strings
\* name and src reused from group to group, the error flag and the free
\* addresses new map nodes are allocated at (full: none was left)
RECURSIVE load_groups(_, _, _)
load_groups(st, i, sz_group) ==
    LET insert(name, pa, p1, it) ==
            LET st1 == [st EXCEPT !.rd = it.rd, !.name = name, !.src = it.src,
                                  !.error = st.error \/ it.error]
            IN  IF name \in DOMAIN st.that.map
                THEN load_groups(
                       [st1 EXCEPT !.that.map[name] =
                           merge_items(@, it.map, KeysInOrder(DOMAIN it.map), 1)],
                       i + 1, sz_group)
                ELSE IF st.free = <<>>
                THEN [ret |-> FALSE, ub |-> FALSE, full |-> TRUE, that |-> st.that,
                      rd |-> it.rd]
                ELSE load_groups(
                       [st1 EXCEPT !.that.map =
                           MapPut(@, name, [addr |-> Head(st.free), prop |-> pa.attr,
                                            map |-> it.map, priority |-> p1]),
                                   !.free = Tail(@)],
                       i + 1, sz_group)
        items(name, pa, sz_item, v) ==
            LET p0 == IF var_type(v) = TP_INT THEN ToU32(v.num)
                      ELSE ToU32(DefaultPriority)
                p1 == IF U32Less(p0, ToU32(0)) THEN ToU32(0) ELSE p0
            IN  insert(name, pa, p1, read_items(pa.rd, EmptyMap, st.src, 0, sz_item))
        attrs(name, pa, sz_item) ==
            IF ~pa.ok
            THEN [ret |-> FALSE, ub |-> FALSE, full |-> FALSE, that |-> st.that,
                  rd |-> pa.rd]
            ELSE items(name, pa, sz_item, Property_get(pa.attr, priority_key))
        counted(name, ra, ri) ==
            attrs(name, read_attr(ri.rd, BytesInt(ra.b)), BytesInt(ri.b))
        counts(name, ra) == counted(name, ra, rd_read(ra.rd, 4))
        named(sz_name, rb) ==
            counts(IF sz_name = 0 THEN <<>>
                   ELSE Overlay(Resize(st.name, sz_name), rb.b),
                   rd_read(rb.rd, 4))
        sized(rn) ==
            LET sz_name == BytesInt(rn.b)
            IN  IF sz_name < 0 \/ sz_name > MaxName
                THEN load_end([st EXCEPT !.error = TRUE, !.rd = rn.rd])
                ELSE named(sz_name, rd_read(rn.rd, sz_name))
    IN  IF i >= sz_group THEN load_end(st)
        ELSE sized(rd_read(st.rd, 1))

\* load(that, rd) over the bytes data.  char tag[3] is not initialised: where
\* the stream ends before its third byte the rest of tag is what the stack
\* held, junk; compressed is initialised to true.
load(that, data, free, junk) ==
    LET groups(pa, sz_group) ==
            IF ~pa.ok
            THEN [ret |-> FALSE, ub |-> FALSE, full |-> FALSE,
                  that |-> [that EXCEPT !.prop = pa.attr], rd |-> pa.rd]
            ELSE load_groups([rd |-> pa.rd, that |-> [that EXCEPT !.prop = pa.attr],
                              name |-> <<>>, src |-> <<>>, error |-> FALSE,
                              free |-> free],
                             0, sz_group)
        counted(ra, rg) == groups(read_attr(rg.rd, BytesInt(ra.b)), BytesInt(rg.b))
        counts(ra) == counted(ra, rd_read(ra.rd, 4))
        body(rd0) == counts(rd_read(rd0, 4))
        flagged(rt, rc) ==
            LET compressed == IF rc.b = <<>> THEN TRUE ELSE rc.b[1] # 0
                tag == Overlay(junk, rt.b)
            IN  IF tag # CKT
                THEN [ret |-> FALSE, ub |-> FALSE, full |-> FALSE, that |-> that,
                      rd |-> rd_offset(rc.rd, -3)]
                ELSE body(IF compressed
                          THEN Reader(lz4_decompress(
                                   SubSeq(data, rc.rd.pos + 1, Len(data))))
                          ELSE rc.rd)
        tagged(rt) == flagged(rt, rd_read(rt.rd, 1))
    IN  tagged(rd_read(Reader(data), 3))

\* Text::load(buf, size), and Text::open of a file holding these bytes
Text_load(t, data, free, junk) ==
    LET sorted(r) ==
            [ret |-> r.ret, ub |-> r.ub, full |-> r.full, t |-> update_sorted(r.that),
             rd |-> r.rd]
    IN  sorted(load(t, data, free, junk))

(***************************************************************************)
(* The public calls, as actions on the Document `text`.                    *)
(***************************************************************************)
NoFile == <<-3>>

\* values the uninitialised bytes of tag can hold
TagJunk == {<<0, 0, 0>>, CKT}

Call(op, name, name2, val, ret) ==
    [op |-> op, name |-> name, name2 |-> name2, val |-> val, prop |-> EmptyMap,
     ret |-> ret]

NoCall == Call("none", <<>>, <<>>, var_default, "void")

\* text.prop().set(name, value)
PropSet(name, value) ==
    /\ alive
    /\ text' = [text EXCEPT !.prop = Property_set(@, name, value)]
    /\ last' = Call("Property::set", name, <<>>, value, "void")
    /\ UNCHANGED <<text1, disk, cop, alive>>

\* text.get(group)->set(src, trs)
GroupSet(group, src, trs) ==
    /\ alive
    /\ Text_get(text, group) # nullptr
    /\ LET n == Text_get(text, group)
           r == Group_set(text.map[n], src, trs)
       IN  /\ text' = [text EXCEPT !.map[n] = r.g]
           /\ last' = Call("Group::set", src, n, var_string(trs),
                           IF r.ret = nullptr THEN "null" ELSE "ptr")
    /\ UNCHANGED <<text1, disk, cop, alive>>

\* text.insert(group, prop); the new node is allocated at a free address
Insert(group, prop, a) ==
    /\ alive
    /\ a \notin AddrsOf(text.map)
    /\ LET r == Text_insert(text, group, prop, a)
       IN  /\ text' = r.t
           /\ last' = [Call("insert", group, <<>>, var_default,
                            IF r.ret = nullptr THEN "null" ELSE "ptr")
                       EXCEPT !.prop = prop]
    /\ UNCHANGED <<text1, disk, cop, alive>>

\* text.remove(group)
Remove(group) ==
    /\ alive
    /\ text' = Text_remove(text, group)
    /\ last' = Call("remove", group, <<>>, var_default, "void")
    /\ UNCHANGED <<text1, disk, cop, alive>>

\* text.remove(it) with it an iterator of text pointing at key name
RemoveIter(name) ==
    /\ alive
    /\ name \in DOMAIN text.map
    /\ text' = Text_remove_iter(text, name)
    /\ last' = Call("remove(iterator)", name, <<>>, var_default, "void")
    /\ UNCHANGED <<text1, disk, cop, alive>>

\* text.rename(oldName, newName); past the undefined it.key() the process
\* either faults or goes on with the node already destroyed
Rename(oldName, newName) ==
    /\ alive
    /\ LET r == Text_rename(text, oldName, newName)
       IN  \/ /\ ~r.ub
              /\ text' = r.t
              /\ alive' = alive
              /\ last' = Call("rename", oldName, newName, var_default,
                              IF r.ret THEN "true" ELSE "false")
           \/ /\ r.ub
              /\ text' = r.t
              /\ alive' = alive
              /\ last' = Call("rename", oldName, newName, var_default, "false")
           \/ /\ r.ub
              /\ text' = r.t
              /\ alive' = FALSE
              /\ last' = Call("rename", oldName, newName, var_default, "fault")
    /\ UNCHANGED <<text1, disk, cop>>

\* text.clear(); dereferencing begin() of an empty map either faults or
\* touches no group
Clear ==
    /\ alive
    /\ LET r == Text_clear(text)
       IN  \/ /\ ~r.ub
              /\ text' = r.t
              /\ alive' = alive
              /\ last' = Call("clear", <<>>, <<>>, var_default, "void")
           \/ /\ r.ub
              /\ text' = r.t
              /\ alive' = alive
              /\ last' = Call("clear", <<>>, <<>>, var_default, "void")
           \/ /\ r.ub
              /\ text' = r.t
              /\ alive' = FALSE
              /\ last' = Call("clear", <<>>, <<>>, var_default, "fault")
    /\ UNCHANGED <<text1, disk, cop>>

\* text.prop().get(name)
PropGet(name) ==
    /\ alive
    /\ last' = Call("Property::get", name, <<>>, Property_get(text.prop, name), "var")
    /\ UNCHANGED <<text, text1, disk, cop, alive>>

\* text.get(group)->prop().set(name, value)
GroupPropSet(group, name, value) ==
    /\ alive
    /\ Text_get(text, group) # nullptr
    /\ LET n == Text_get(text, group)
       IN  /\ text' = [text EXCEPT !.map[n].prop = Property_set(@, name, value)]
           /\ last' = Call("Group::prop::set", name, n, value, "void")
    /\ UNCHANGED <<text1, disk, cop, alive>>

\* text.save(path, compress), the files being writable; Text::empty() on a
\* Document without groups dereferences begin() of an empty map
Save(compress) ==
    /\ alive
    /\ \E r \in {Text_save(text, compress)} :
           \/ /\ ~r.ub
              /\ disk' = r.file
              /\ alive' = alive
              /\ last' = Call("save", <<>>, <<>>, var_bool(compress),
                              IF r.ret THEN "true" ELSE "false")
           \/ /\ r.ub
              /\ disk' = r.file
              /\ alive' = FALSE
              /\ last' = Call("save", <<>>, <<>>, var_bool(compress), "fault")
    /\ UNCHANGED <<text, text1, cop>>

\* the steps of the compression section of Text::save that the file system
\* or the compressor can fail
SaveSteps == {"none", "create", "reopen", "compress", "rename"}

\* Text::save(filename, true) when step fail of the compression section
\* fails (none: every step succeeds), tmp being the file at filename + ".cop"
\* before the call.  file and cop are the two files after it: the target was
\* written uncompressed with the compress flag set before the section starts;
\* temp_guard removes the temporary on each return that follows its creation.
Text_save_compress(t, tmp, fail) ==
    LET e == Text_empty(t)
        plain == save_header(TRUE)
                 \o IntBytes(Cardinality(DOMAIN t.prop), 4)
                 \o IntBytes(Cardinality(DOMAIN t.map), 4) \o write(t.prop)
                 \o write_groups(t.map, KeysInOrder(DOMAIN t.map), 1)
    IN  IF e.ub \/ e.ret
        THEN [ub |-> e.ub, ret |-> Text_save(t, TRUE).ret,
              file |-> Text_save(t, TRUE).file, cop |-> tmp]
        ELSE CASE fail = "create" ->
                      [ub |-> FALSE, ret |-> FALSE, file |-> NoFile, cop |-> tmp]
               [] fail = "reopen" ->
                      [ub |-> FALSE, ret |-> FALSE, file |-> plain, cop |-> NoFile]
               [] fail = "compress" ->
                      [ub |-> FALSE, ret |-> FALSE, file |-> plain, cop |-> NoFile]
               [] fail = "rename" ->
                      [ub |-> FALSE, ret |-> TRUE, file |-> NoFile, cop |-> NoFile]
               [] OTHER ->
                      [ub |-> FALSE, ret |-> TRUE,
                       file |-> Text_save(t, TRUE).file, cop |-> NoFile]

\* text.save(path, true) where step fail of the compression section fails
SaveCompress(fail) ==
    /\ alive
    /\ \E r \in {Text_save_compress(text, cop, fail)} :
           /\ disk' = r.file
           /\ cop' = r.cop
           /\ alive' = ~r.ub
           /\ last' = Call("save", <<>>, <<>>, var_true,
                           IF r.ub THEN "fault"
                           ELSE IF r.ret THEN "true" ELSE "false")
    /\ UNCHANGED <<text, text1>>

\* a file is at path + ".cop" before save is called
StaleTemp(bytes) ==
    /\ alive
    /\ cop = NoFile
    /\ cop' = bytes
    /\ UNCHANGED <<text, text1, disk, alive, last>>

\* a Document is constructed at address a and the saved file opened into it:
\* Text text1; text1.open(path)
Open(a, free) ==
    /\ alive
    /\ disk # NoFile
    /\ \E r \in {Text_load(Text_new(a), disk, free, junk) : junk \in TagJunk} :
           /\ ~r.full
           /\ ~r.ub
           /\ text1' = r.t
           /\ last' = Call("open", <<>>, <<>>, var_default,
                           IF r.ret THEN "true" ELSE "false")
    /\ UNCHANGED <<text, disk, cop, alive>>

\* text.load(buf, size) of the bytes data
Load(data, free) ==
    /\ alive
    /\ \E r \in {Text_load(text, data, free, junk) : junk \in TagJunk} :
           /\ ~r.full
           /\ \/ /\ ~r.ub
                 /\ text' = r.t
                 /\ alive' = alive
                 /\ last' = Call("load", data, <<>>, var_default,
                                 IF r.ret THEN "true" ELSE "false")
              \/ /\ r.ub
                 /\ text' = r.t
                 /\ alive' = FALSE
                 /\ last' = Call("load", data, <<>>, var_default, "fault")
    /\ UNCHANGED <<text1, disk, cop>>

\* the file cut to its first n bytes
Truncate(n) ==
    /\ alive
    /\ disk # NoFile
    /\ n >= 0
    /\ n < Len(disk)
    /\ disk' = SubSeq(disk, 1, n)
    /\ last' = Call("truncate", <<>>, <<>>, var_int(n), "void")
    /\ UNCHANGED <<text, text1, cop, alive>>

\* text.u8(src, def); a dangling pointer in the sorted view makes the call
\* fault or return anything a lookup can return
Lookup(src, def) ==
    /\ alive
    /\ \E r \in {Text_u8(text, src, def)} :
         \E o \in (IF r = UB THEN {UB, nullptr, def} ELSE {r}) :
           /\ alive' = (o # UB)
           /\ last' = Call("u8", src, def, var_string(o),
                           IF o = UB THEN "fault"
                           ELSE IF o = nullptr THEN "null" ELSE "ptr")
    /\ UNCHANGED <<text, text1, disk, cop>>

\* the sequences of distinct addresses of S, in every order
RECURSIVE Orders(_)
Orders(S) ==
    IF S = {} THEN {<<>>}
    ELSE UNION {{<<a>> \o o : o \in Orders(S \ {a})} : a \in S}

(***************************************************************************)
(* Spec: the group operations of a Document.                               *)
(***************************************************************************)
Name_a == <<97>>
Name_b == <<98>>
LongName == [i \in 1..(MaxName + 1) |-> 97]
Src_k == <<107>>
Trs_x == <<120>>
Trs_y == <<121>>

GroupNames == {<<>>, Name_a, Name_b}

PriorityTable(i) == [n \in {priority_key} |-> var_int(i)]

\* the table of a group of priority 200
Priority200 == PriorityTable(200)

InsertProps == {EmptyMap, Priority200, PriorityTable(-1)}

Init ==
    /\ \E a \in Addr : text = Text_new(a)
    /\ text1 = Text_new(1)
    /\ disk = NoFile
    /\ cop = NoFile
    /\ alive = TRUE
    /\ last = NoCall

Next ==
    \/ \E g \in GroupNames \cup {nullptr, LongName}, p \in InsertProps, a \in Addr :
           Insert(g, p, a)
    \/ \E g \in GroupNames \cup {nullptr} : Remove(g)
    \/ \E n \in GroupNames : RemoveIter(n)
    \/ \E o \in GroupNames, n \in GroupNames : Rename(o, n)
    \/ Clear
    \/ \E g \in GroupNames : GroupSet(g, Src_k, Trs_x)

Spec == Init /\ [][Next]_vars

(***************************************************************************)
(* SpecSet: Property::set and get on the document's table and              *)
(* Group::set on the default group, with arguments in and out of bounds.   *)
(***************************************************************************)
Name_p == <<112>>
Name_q == <<113>>

PropNameArgs == {nullptr, <<>>, Name_p, Name_q, LongName}

ValueArgs ==
    {var_bool(FALSE), var_int(-1), var_string(Trs_x), var_string(<<>>),
     var_string([i \in 1..MaxString |-> 120]),
     var_string([i \in 1..(MaxString + 1) |-> 120])}

SrcArgs == {nullptr, <<>>, Src_k, Rep(L10KB, 97), Rep(L10KB + 1, 97)}
TrsArgs == {nullptr, <<>>, Trs_x, Rep(L10KB + 1, 97)}

NextSet ==
    \/ \E n \in PropNameArgs, v \in ValueArgs : PropSet(n, v)
    \/ \E n \in {Name_p, Name_q} : PropGet(n)
    \/ \E src \in SrcArgs, trs \in TrsArgs : GroupSet(nullptr, src, trs)

SpecSet == Init /\ [][NextSet]_vars

(***************************************************************************)
(* SpecCodec: a Document is built from in-bounds data, saved, and the file *)
(* opened into a freshly constructed Document (main.cpp).                  *)
(***************************************************************************)
FloatBits == 1078523331      \* 3.14f

CodecValues == {var_bool(TRUE), var_int(-2), var_float(FloatBits), var_string(Trs_x)}

Building == disk = NoFile

NextCodec ==
    \/ \E v \in CodecValues : Building /\ PropSet(Name_p, v)
    \/ \E p \in {EmptyMap, Priority200}, a \in Addr :
           Building /\ Insert(Name_a, p, a)
    \/ \E g \in {nullptr, Name_a}, t \in {Trs_x, <<>>} :
           Building /\ GroupSet(g, Src_k, t)
    \/ \E g \in {nullptr, Name_a} :
           Building /\ GroupPropSet(g, Name_q, var_false)
    \/ \E c \in BOOLEAN : Building /\ Save(c)
    \/ \E a \in Addr : \E free \in Orders(Addr \ {a}) :
           last.op = "save" /\ Open(a, free)

SpecCodec == Init /\ [][NextCodec]_vars

(***************************************************************************)
(* SpecLookup: groups are inserted with "priority" properties, filled by   *)
(* Group::set and looked up through the Document.                          *)
(***************************************************************************)
Trs_z == <<122>>
Def_d == <<100>>

\* the translation each group is given for the source k
TrsOf(group) ==
    CASE group = Name_a -> Trs_y
      [] group = Name_b -> Trs_z
      [] OTHER -> Trs_x

LookupProps == {PriorityTable(200), PriorityTable(50), PriorityTable(-1)}

NextLookup ==
    \/ \E g \in {Name_a, Name_b}, p \in LookupProps, a \in Addr : Insert(g, p, a)
    \/ \E g \in {nullptr, Name_a, Name_b} : \E t \in {<<>>, TrsOf(g)} :
           GroupSet(g, Src_k, t)
    \/ \E src \in {nullptr, Src_k, Trs_x} : Lookup(src, Def_d)

SpecLookup == Init /\ [][NextLookup]_vars

(***************************************************************************)
(* SpecLoad: a Document with content loads streams, some of them invalid.  *)
(***************************************************************************)
Name_c == <<99>>

Header == CKT \o <<0>>

\* a group with the translation k -> x and no attribute
GroupKX == [NewGroup(1) EXCEPT !.map = MapPut(EmptyMap, Src_k, Trs_x)]

\* a valid container: no attribute, the group b
GoodStream == Header \o IntBytes(0, 4) \o IntBytes(1, 4) \o write_group(Name_b, GroupKX)

\* the magic tag is CKX
BadMagic == <<67, 75, 88, 0>> \o IntBytes(0, 4) \o IntBytes(1, 4)
            \o write_group(Name_b, GroupKX)

\* the document-level table holds a record of type 9
BadDocAttr == Header \o IntBytes(1, 4) \o IntBytes(0, 4) \o <<9>>

\* the group b, then a group c whose table holds a record of type 9
BadGroupAttr ==
    Header \o IntBytes(0, 4) \o IntBytes(2, 4) \o write_group(Name_b, GroupKX)
    \o IntBytes(1, 1) \o Name_c \o IntBytes(1, 4) \o IntBytes(0, 4) \o <<9>>

\* a group whose name length is 65
BadNameLen == Header \o IntBytes(0, 4) \o IntBytes(1, 4) \o IntBytes(MaxName + 1, 1)

\* the group b with one item whose source length is 0
BadItem ==
    Header \o IntBytes(0, 4) \o IntBytes(1, 4)
    \o IntBytes(1, 1) \o Name_b \o IntBytes(0, 4) \o IntBytes(1, 4) \o IntBytes(0, 4)

LoadStreams == {GoodStream, BadMagic, BadDocAttr, BadGroupAttr, BadNameLen, BadItem}

NextLoad ==
    \/ PropSet(Name_p, var_true)
    \/ \E a \in Addr : Insert(Name_a, EmptyMap, a)
    \/ \E g \in {nullptr, Name_a} : GroupSet(g, Src_k, Trs_x)
    \/ \E d \in LoadStreams : \E free \in Orders(Addr \ AddrsOf(text.map)) :
           Load(d, free)

SpecLoad == Init /\ [][NextLoad]_vars

(***************************************************************************)
(* SpecTrunc: a Document is saved uncompressed, the file is cut short and  *)
(* opened into a freshly constructed Document.                             *)
(***************************************************************************)
TruncValues == {var_int(-2), var_string(Trs_x)}

NextTrunc ==
    \/ \E v \in TruncValues : Building /\ PropSet(Name_p, v)
    \/ \E a \in Addr : Building /\ Insert(Name_a, Priority200, a)
    \/ \E g \in {nullptr, Name_a} : Building /\ GroupSet(g, Src_k, Trs_x)
    \/ Building /\ Save(FALSE)
    \/ \E n \in 0..Len(disk) : last.op = "save" /\ Truncate(n)
    \/ \E a \in Addr : \E free \in Orders(Addr \ {a}) :
           last.op = "truncate" /\ Open(a, free)

SpecTrunc == Init /\ [][NextTrunc]_vars

(***************************************************************************)
(* SpecPriority: groups get their priority from a "priority" property,     *)
(* supplied to insert or read from a container by load.                    *)
(***************************************************************************)
\* a container whose group b has the Int32 property priority = i
PriorityStream(i) ==
    Header \o IntBytes(0, 4) \o IntBytes(1, 4)
    \o write_group(Name_b, [GroupKX EXCEPT !.prop = PriorityTable(i)])

NextPriority ==
    \/ \E g \in {Name_a, Name_b}, p \in InsertProps, a \in Addr : Insert(g, p, a)
    \/ \E i \in {-1, 50} : \E free \in Orders(Addr \ AddrsOf(text.map)) :
           Load(PriorityStream(i), free)
    \/ \E src \in {Src_k} : Lookup(src, Def_d)

SpecPriority == Init /\ [][NextPriority]_vars

(***************************************************************************)
(* SpecMerge: a Document with translations loads a container whose groups  *)
(* are in part already present.                                            *)
(***************************************************************************)
Src_j == <<106>>

\* the translations a loaded group holds
LoadedMaps ==
    {MapPut(EmptyMap, Src_k, Trs_y),
     MapPut(MapPut(EmptyMap, Src_k, <<>>), Src_j, Trs_y)}

\* the groups of a container: every non-empty choice among the default
\* group, a and b, all holding the same translations
MergeContents ==
    {[n \in S |-> [NewGroup(1) EXCEPT !.map = m]] :
        S \in (SUBSET {<<>>, Name_a, Name_b}) \ {{}}, m \in LoadedMaps}

\* the uncompressed container of the groups c, without attributes
Container(c) ==
    Header \o IntBytes(0, 4) \o IntBytes(Cardinality(DOMAIN c), 4)
    \o write_groups(c, KeysInOrder(DOMAIN c), 1)

Merging == last.op # "load"

NextMerge ==
    \/ \E a \in Addr : Merging /\ Insert(Name_a, EmptyMap, a)
    \/ \E g \in {nullptr, Name_a}, src \in {Src_k, Src_j} :
           Merging /\ GroupSet(g, src, Trs_x)
    \/ \E c \in MergeContents : \E free \in Orders(Addr \ AddrsOf(text.map)) :
           Merging /\ Load(Container(c), free)

SpecMerge == Init /\ [][NextMerge]_vars

(***************************************************************************)
(* SpecRecord: read(ireader&, Property&) called record after record on a   *)
(* stream of two AttributeRecords, well-formed or not, as the loop of      *)
(* read_attr calls it on the document's table.                             *)
(***************************************************************************)
\* a record of type tag t named p with a four-byte payload
TaggedRecord(t) == <<t>> \o write_str1(Name_p) \o IntBytes(7, 4)

\* an Int32 record whose name is name
NamedRecord(name) == <<TP_INT>> \o write_str1(name) \o IntBytes(7, 4)

\* a String record named q whose payload is str
StringRecord(str) == <<TP_STRING>> \o write_str1(Name_q) \o write_str1(str)

Records ==
    {TaggedRecord(t) : t \in {TP_NUL, TP_BOOL, TP_INT, TP_FLOAT, TP_STRING + 1}}
    \cup {NamedRecord(n) : n \in {<<>>, Name_q, LongName}}
    \cup {StringRecord(str) : str \in {<<>>, Trs_x}}

RecordStreams == {r1 \o r2 : r1 \in Records, r2 \in Records}

\* the stream position: where the last call of read left it
RecordPos == IF last.op = "read" THEN last.val.num ELSE 0

\* one call of read(rd, that._prop); the loop of read_attr stops at the first
\* failure and at the end of the stream
ReadRecord ==
    /\ alive
    /\ last.ret # "false"
    /\ RecordPos < Len(disk)
    /\ \E r \in {read([data |-> disk, pos |-> RecordPos], text.prop)} :
           /\ text' = [text EXCEPT !.prop = r.o]
           /\ last' = Call("read", <<>>, <<RecordPos>>, var_int(r.rd.pos),
                           IF r.ok THEN "true" ELSE "false")
    /\ UNCHANGED <<text1, disk, cop, alive>>

InitRecord ==
    /\ text = Text_new(1)
    /\ text1 = Text_new(1)
    /\ disk \in RecordStreams
    /\ cop = NoFile
    /\ alive = TRUE
    /\ last = NoCall

NextRecord == ReadRecord

SpecRecord == InitRecord /\ [][NextRecord]_vars

(***************************************************************************)
(* SpecTemp: a Document is built and saved with compression while steps of *)
(* the compression section fail; a file may be at the temporary's path.    *)
(***************************************************************************)
Unsaved == last.op # "save"

NextTemp ==
    \/ \E v \in CodecValues : Unsaved /\ PropSet(Name_p, v)
    \/ \E p \in {EmptyMap, Priority200}, a \in Addr :
           Unsaved /\ Insert(Name_a, p, a)
    \/ \E g \in {nullptr, Name_a}, t \in {Trs_x, <<>>} :
           Unsaved /\ GroupSet(g, Src_k, t)
    \/ Unsaved /\ StaleTemp(CKT)
    \/ \E fail \in SaveSteps : Unsaved /\ SaveCompress(fail)

SpecTemp == Init /\ [][NextTemp]_vars

(***************************************************************************)
(* Claims about the group operations (checked under Spec).                 *)
(***************************************************************************)

\* C1: in every state reachable by the public Document operations a group
\* with the empty name (the default group) exists in the Document.
C1_DefaultGroupExists == alive => <<>> \in DOMAIN text.map

\* C8: rename(old, new) with old an existing group and new the name of
\* another existing group reports failure and leaves the Document unchanged:
\* both names stay bound to their groups and the number of groups is the same.
C8_RenameCollisionRestores ==
    [][(/\ last'.op = "rename"
        /\ last'.name \in DOMAIN text.map
        /\ last'.name2 \in DOMAIN text.map
        /\ last'.name # last'.name2)
       => (/\ alive'
           /\ last'.ret = "false"
           /\ text'.map = text.map)]_vars

\* the mathematical value of uint32_t u is the integer i
U32IsInt(u, i) == i >= 0 /\ u = <<i \div 65536, i % 65536>>

InsertRejects(t, group) ==
    \/ group = nullptr
    \/ length(group) < 1
    \/ length(group) > MaxName
    \/ group \in DOMAIN t.map

\* the group insert(group, prop) added: bound to group, it holds a copy of
\* prop and no translations, and every other binding is as before
InsertAddsOne(t, t2, group, prop) ==
    /\ DOMAIN t2.map = DOMAIN t.map \cup {group}
    /\ \A n \in DOMAIN t.map : t2.map[n] = t.map[n]
    /\ t2.prop = t.prop
    /\ t2.map[group].prop = prop
    /\ t2.map[group].map = EmptyMap
    /\ t2.map[group].addr \notin AddrsOf(t.map)

\* C10: a rejected insert returns null and leaves the Document
\* unchanged; any other insert adds exactly one group holding a copy of the
\* table and no translations, whose priority equals the Int32 "priority"
\* property if present and 100 otherwise.
C10_InsertPriorityEqualsProperty ==
    [][last'.op = "insert" =>
        IF InsertRejects(text, last'.name)
        THEN last'.ret = "null" /\ text' = text
        ELSE /\ last'.ret = "ptr"
             /\ InsertAddsOne(text, text', last'.name, last'.prop)
             /\ LET v == Property_get(last'.prop, priority_key)
                IN  IF var_type(v) = TP_INT
                    THEN U32IsInt(text'.map[last'.name].priority, v.num)
                    ELSE U32IsInt(text'.map[last'.name].priority, DefaultPriority)]_vars

(***************************************************************************)
(* Claims about Property and Group::set (checked under SpecSet).           *)
(***************************************************************************)

\* m2 is m with exactly key k inserted or overwritten by v
PutsExactly(m, m2, k, v) ==
    /\ DOMAIN m2 = DOMAIN m \cup {k}
    /\ m2[k] = v
    /\ \A x \in DOMAIN m \ {k} : m2[x] = m[x]

PropertySetOutOfBounds(name, value) ==
    \/ name = nullptr
    \/ length(name) = 0
    \/ length(name) > 64
    \/ (value.index = 3 /\ (length(value.str) = 0 \/ length(value.str) > 255))

GroupSetOutOfBounds(src, trs) ==
    \/ src = nullptr
    \/ trs = nullptr
    \/ length(src) = 0
    \/ length(src) > 10485760
    \/ length(trs) > 10485760

\* C7: a rejected set is a no-op (Property.set with a name of length 0 or
\* > 64 or a String value of length 0 or > 255 leaves the table unchanged;
\* Group.set with a null argument, an empty source or a source or
\* translation longer than 10 MiB returns null and leaves the Group
\* unchanged), and every in-bounds call, Group.set with an empty translation
\* included, inserts or overwrites exactly that one key.
C7_RejectedSetIsNoOp ==
    [][/\ last'.op = "Property::set" =>
            IF PropertySetOutOfBounds(last'.name, last'.val)
            THEN text' = text
            ELSE /\ PutsExactly(text.prop, text'.prop, last'.name, last'.val)
                 /\ text'.map = text.map
       /\ last'.op = "Group::set" =>
            IF GroupSetOutOfBounds(last'.name, last'.val.str)
            THEN last'.ret = "null" /\ text' = text
            ELSE /\ last'.ret = "ptr"
                 /\ PutsExactly(text.map[last'.name2].map, text'.map[last'.name2].map,
                                last'.name, last'.val.str)
                 /\ text'.map[last'.name2].prop = text.map[last'.name2].prop
                 /\ text'.prop = text.prop]_vars

\* a Group.set with a source of 10 MiB + 1 bytes has been rejected on a
\* group of two translations, one of them empty, beside a table of two
\* entries, one of them a String
C7_Witness ==
    /\ last.op = "Group::set"
    /\ last.ret = "null"
    /\ length(last.name) = 10485761
    /\ Cardinality(DOMAIN text.map[<<>>].map) = 2
    /\ \E k \in DOMAIN text.map[<<>>].map : text.map[<<>>].map[k] = <<>>
    /\ Cardinality(DOMAIN text.prop) = 2
    /\ \E n \in DOMAIN text.prop : text.prop[n].index = 3

\* C9: Property.get(name) for a name that is not in the table returns a
\* Value whose tag is None and that is not valid, hence a result no stored
\* Value (in particular a stored Bool false) equals.
C9_GetAbsentIsNone ==
    (last.op = "Property::get" /\ last.name \notin DOMAIN text.prop)
        => /\ var_type(last.val) = TP_NUL
           /\ ~var_valid(last.val)
           /\ last.val # var_false

(***************************************************************************)
(* Claims about save and open (checked under SpecCodec).                   *)
(***************************************************************************)

\* C3: after save(path, compress) and open into a freshly constructed
\* Document, for either value of compress, the opened Document has the same
\* groups, the default group and every named group hold exactly the same
\* (source, translation) pairs, empty translations included, and the
\* document-level Property Table holds the same entries.
C3_RoundTripPairsAndDocProps ==
    last.op = "open" =>
        /\ last.ret = "true"
        /\ DOMAIN text1.map = DOMAIN text.map
        /\ \A n \in DOMAIN text.map : text1.map[n].map = text.map[n].map
        /\ text1.prop = text.prop

\* C4: after save and open into a freshly constructed Document every group,
\* the default group included (also when it has properties but no
\* translations), has a Property Table with the same values as before.
C4_RoundTripGroupProps ==
    last.op = "open" =>
        \A n \in DOMAIN text.map :
            n \in DOMAIN text1.map /\ text1.map[n].prop = text.map[n].prop

(***************************************************************************)
(* Claims about lookup (checked under SpecLookup).                         *)
(***************************************************************************)

\* the priority of a group as its "priority" property gives it: the Int32
\* value floored at 0, and 100 without such a property
PriorityOf(g) ==
    LET v == Property_get(g.prop, priority_key)
    IN  IF var_type(v) = TP_INT THEN (IF v.num < 0 THEN 0 ELSE v.num) ELSE 100

\* C2: in a Document of the default group and n >= 1 inserted groups with
\* distinct priorities, u8(src, def) is decided by the highest-priority
\* group that contains src: its translation if that is not empty, def if it
\* is empty (whatever lower-priority groups hold), and null if no group
\* contains src.
C2_LookupByHighestPriority ==
    (/\ last.op = "u8"
     /\ last.name # nullptr
     /\ <<>> \in DOMAIN text.map
     /\ Cardinality(DOMAIN text.map) >= 2
     /\ \A m, n \in DOMAIN text.map :
            m # n => PriorityOf(text.map[m]) # PriorityOf(text.map[n]))
    => LET holders == {n \in DOMAIN text.map : last.name \in DOMAIN text.map[n].map}
           top == CHOOSE n \in holders :
                      \A m \in holders :
                          PriorityOf(text.map[m]) <= PriorityOf(text.map[n])
       IN  IF holders = {} THEN last.val.str = nullptr
           ELSE IF text.map[top].map[last.name] = <<>> THEN last.val.str = last.name2
           ELSE last.val.str = text.map[top].map[last.name]

(***************************************************************************)
(* Claims about invalid and truncated input (SpecLoad, SpecTrunc).         *)
(***************************************************************************)

\* C5: whenever load returns failure (bad magic tag, invalid attribute
\* record in the document-level or a group-level table, group name length
\* out of 0..64, item with an invalid source length) the Document is in the
\* state clear() leaves: exactly the default group, without translations,
\* and an empty document-level Property Table.
C5_FailedLoadLeavesCleared ==
    (last.op = "load" /\ last.ret = "false")
    => /\ DOMAIN text.map = {<<>>}
       /\ text.map[<<>>].map = EmptyMap
       /\ text.prop = EmptyMap

\* the offsets of the saved uncompressed container of t at which a record
\* (AttributeRecord, GroupRecord header, ItemRecord) begins or ends
AttrBounds(o, start) ==
    LET keys == KeysInOrder(DOMAIN o)
    IN  {start + Len(write_entries(o, SubSeq(keys, 1, j), 1)) : j \in 0..Len(keys)}

ItemBounds(map, start) ==
    LET keys == KeysInOrder(DOMAIN map)
    IN  {start + Len(write_items(map, SubSeq(keys, 1, j), 1)) : j \in 0..Len(keys)}

RECURSIVE GroupBounds(_, _, _, _)
GroupBounds(map, keys, i, start) ==
    IF i > Len(keys) THEN {start}
    ELSE LET g == map[keys[i]]
             header == start + 1 + Len(keys[i]) + 8
             attrs == header + Len(write(g.prop))
         IN  {start, header} \cup AttrBounds(g.prop, header)
             \cup ItemBounds(g.map, attrs)
             \cup GroupBounds(map, keys, i + 1, start + Len(write_group(keys[i], g)))

RecordBounds(t) ==
    AttrBounds(t.prop, 12)
    \cup (IF Text_empty(t).ret THEN {}
          ELSE GroupBounds(t.map, KeysInOrder(DOMAIN t.map), 1,
                           12 + Len(write(t.prop))))

\* C6: opening a proper prefix of the saved uncompressed container that
\* ends in the middle of a record (inside an AttributeRecord, a GroupRecord
\* header or an ItemRecord) returns failure.
C6_TruncatedLoadFails ==
    (/\ last.op = "open"
     /\ Len(disk) > 12
     /\ Len(disk) < Len(Text_save(text, FALSE).file)
     /\ disk = SubSeq(Text_save(text, FALSE).file, 1, Len(disk))
     /\ Len(disk) \notin RecordBounds(text))
    => last.ret = "false"

(***************************************************************************)
(* Claims about priorities (checked under SpecPriority).                   *)
(***************************************************************************)

\* the place of the group at address a in the sorted view
PlaceOf(t, a) == CHOOSE i \in 1..Len(t.sorted) : t.sorted[i] = a

\* C11: a group whose "priority" property is a negative Int32, supplied to
\* insert or read by load, has priority 0, and in the lookup order it comes
\* after every group whose priority is positive (the default priority 100
\* included).
C11_NegativePriorityIsZero ==
    \A n \in DOMAIN text.map :
        LET v == Property_get(text.map[n].prop, priority_key)
        IN  (var_type(v) = TP_INT /\ v.num < 0)
            => /\ text.map[n].priority = <<0, 0>>
               /\ \A m \in DOMAIN text.map :
                      (/\ PriorityOf(text.map[m]) > 0
                       /\ \E i \in 1..Len(text.sorted) :
                              text.sorted[i] = text.map[m].addr
                       /\ \E i \in 1..Len(text.sorted) :
                              text.sorted[i] = text.map[n].addr)
                      => PlaceOf(text, text.map[m].addr)
                             < PlaceOf(text, text.map[n].addr)

(***************************************************************************)
(* Claims about the merge done by load (checked under SpecMerge).          *)
(***************************************************************************)

\* the translations old overridden key by key by new
Override(old, new) ==
    [k \in DOMAIN old \cup DOMAIN new |-> IF k \in DOMAIN new THEN new[k] ELSE old[k]]

C13_SortedViewIsExact ==
    alive =>
        /\ Len(text.sorted) = Cardinality(DOMAIN text.map)
        /\ {text.sorted[i] : i \in 1..Len(text.sorted)} = AddrsOf(text.map)
        /\ \A i \in 1..Len(text.sorted), j \in 1..Len(text.sorted) :
               i < j => \A g \in Deref(text, text.sorted[i]),
                           h \in Deref(text, text.sorted[j]) :
                            ~U32Less(g.priority, h.priority)


(***************************************************************************)
(* Claims about malformed AttributeRecords (checked under SpecRecord).     *)
(***************************************************************************)
\* the byte of data at offset pos, -1 past the end
ByteAt(data, pos) == IF pos < Len(data) THEN data[pos + 1] ELSE -1

\* the record at pos has a type tag outside 1..4
BadTag(data, pos) == ByteAt(data, pos) \notin TP_BOOL..TP_STRING

\* the record at pos has a name length outside 1..64
BadNameLength(data, pos) ==
    ~BadTag(data, pos) /\ ByteAt(data, pos + 1) \notin 1..MaxName

\* the record at pos is a String whose payload length is outside 1..255
BadStringLength(data, pos) ==
    /\ ByteAt(data, pos) = TP_STRING
    /\ ByteAt(data, pos + 1) \in 1..MaxName
    /\ ByteAt(data, pos + 2 + ByteAt(data, pos + 1)) \notin 1..MaxString

\* C14: reading an AttributeRecord whose type tag is outside 1..4, whose
\* name length is outside 1..64 or whose String payload length is outside
\* 1..255 (0 in particular) reports failure, stores no entry and leaves the
\* stream position where the record started.
C14_BadRecordFailsAndRewinds ==
    [][(/\ last'.op = "read"
        /\ \/ BadTag(disk, last'.name2[1])
           \/ BadNameLength(disk, last'.name2[1])
           \/ BadStringLength(disk, last'.name2[1]))
       => /\ last'.ret = "false"
          /\ text'.prop = text.prop
          /\ last'.val.num = last'.name2[1]]_vars


(***************************************************************************)
(* Claims about the temporary file of save (checked under SpecTemp).       *)
(***************************************************************************)
\* the Document that load parses from the bytes file is the Document t
LoadsAs(file, t) ==
    \A a \in Addr : \A free \in Orders(Addr \ {a}) : \A junk \in TagJunk :
        \A r \in {Text_load(Text_new(a), file, free, junk)} :
            /\ r.ret
            /\ r.t.prop = t.prop
            /\ DOMAIN r.t.map = DOMAIN t.map
            /\ \A n \in DOMAIN t.map :
                   /\ r.t.map[n].map = t.map[n].map
                   /\ r.t.map[n].prop = t.map[n].prop

\* C15: on every exit path of save(path, compress = true) the temporary
\* file path + ".cop" that the call created no longer exists, and whenever
\* save returns failure the target is absent or holds a container that load
\* parses as the saved Document.
C15_FailedSaveLeavesNoPartialFile ==
    [][(last'.op = "save" /\ last'.ret # "fault")
       => /\ (~Text_empty(text).ret /\ ~(last'.ret = "false" /\ disk' = NoFile))
             => cop' = NoFile
          /\ last'.ret = "false" => (disk' = NoFile \/ LoadsAs(disk', text))]_vars

=============================================================================
